---- MODULE Spec2Model ----
(***************************************************************************)
(* zeekmon: the report store (Summaries) and the reporting loop            *)
(* (startIntervalReport) of cmd/report.go, with the goroutines that use    *)
(* them: the reporting goroutine (the only caller of Insert), the producer *)
(* on the other end of the unbuffered report channel, the ticker, and      *)
(* reader goroutines calling the store's read methods; main's context and  *)
(* its cancellation; and, from the design text, the Sample Window and the  *)
(* Rate Computer that produce the reports.                                 *)
(*                                                                         *)
(* A *IntervalReport is a sequence: <<>> is the nil pointer, <<r>> points  *)
(* to the report r.  A float64 is a string: "NaN", "+Inf", "-Inf" or a     *)
(* finite decimal.  A []byte is <<>> (no bytes) or <<doc>>, doc the JSON   *)
(* document the bytes spell.                                               *)
(***************************************************************************)
EXTENDS Integers, Sequences, FiniteSets, TLC

\* Bounds of the model.
NumReaders == 1     \* reader goroutines beside the reporting goroutine
MaxOut == 1         \* the ticker fires while fewer lines than this were written
WindowLen == 3      \* the capacity N of a Sample Window
MaxPush == 5        \* samples pushed to the window
MaxObs == 3         \* observations handed to the Rate Computer
MaxTime == 2        \* the latest timestamp of an observation
MaxCPU == 2         \* the largest cumulative CPU time of an observation

Roles == {"manager", "worker"}
Readers == 1..NumReaders
Sched == 0
Threads == Readers \cup {Sched}

NilPtr == <<>>
Ptr(r) == <<r>>

\* The float64 values that are not finite numbers.
NonFinite == {"NaN", "+Inf", "-Inf"}

\* time.Second: a time.Duration counts nanoseconds.
Second == 1000000000

\* A time.Time: seconds since the epoch and the nanoseconds within the
\* second.
Time(sec, nsec) == [sec |-> sec, nsec |-> nsec]

\* type IntervalReport struct: the thirteen fields.  The fields that are not
\* rates are derived from the pid, so that two reports of one role differ in
\* every one of them.
IntervalReport(role, pid, w, sd, lt, cur) ==
    [PID |-> pid, Role |-> role, InitTimestamp |-> Time(100 + pid, 250),
     Timestamp |-> Time(200 + pid, 750), Age |-> Second + (Second \div 2) + pid,
     WindowRate |-> w,
     StandardDev |-> sd, LifetimeRate |-> lt, CurrentRate |-> cur,
     TimesRestated |-> pid - 1, VirtMemoryBytes |-> 4096 * pid,
     RSSBytes |-> 1024 * pid, RateHistogram |-> <<pid>>]

\* The reports the producer sends: a first report of a role (no history yet:
\* every rate NaN), an ordinary one, one whose rates divide by zero, one of
\* another role with a single undefined rate.
Reports ==
    { IntervalReport("manager", 1, "NaN", "NaN", "NaN", "NaN"),
      IntervalReport("manager", 2, "0.45", "0.05", "0.4", "0.5"),
      IntervalReport("manager", 3, "0.45", "0.05", "+Inf", "-Inf"),
      IntervalReport("worker", 4, "0.25", "NaN", "0.25", "0.25") }

\* errNoInfoForRole, and the error All builds with errors.New.
errNoInfoForRole == "errNoInfoForRole"
errZeroSummaries == "zero summaries currently available"
errUnsupportedValue == "json: unsupported value"
noErr == "nil"

\* math.IsNaN.
IsNaN(f) == f = "NaN"

\* safeIntervalReport, lines 122-150: the copy of *rep, field by field, with
\* each NaN rate set to -1.
SafeCopy(rep) ==
    LET safeRep == [PID |-> rep.PID, Role |-> rep.Role,
                    InitTimestamp |-> rep.InitTimestamp,
                    Timestamp |-> rep.Timestamp, Age |-> rep.Age,
                    WindowRate |-> rep.WindowRate,
                    StandardDev |-> rep.StandardDev,
                    LifetimeRate |-> rep.LifetimeRate,
                    CurrentRate |-> rep.CurrentRate,
                    RateHistogram |-> rep.RateHistogram,
                    TimesRestated |-> rep.TimesRestated,
                    VirtMemoryBytes |-> rep.VirtMemoryBytes,
                    RSSBytes |-> rep.RSSBytes]
        s1 == IF IsNaN(safeRep.CurrentRate)
              THEN [safeRep EXCEPT !.CurrentRate = "-1"] ELSE safeRep
        s2 == IF IsNaN(s1.LifetimeRate)
              THEN [s1 EXCEPT !.LifetimeRate = "-1"] ELSE s1
        s3 == IF IsNaN(s2.StandardDev)
              THEN [s2 EXCEPT !.StandardDev = "-1"] ELSE s2
    IN  IF IsNaN(s3.WindowRate) THEN [s3 EXCEPT !.WindowRate = "-1"] ELSE s3

\* encoding/json on one *IntervalReport: the object with the struct tags as
\* keys; a nil pointer encodes as null.
JSONObject(p) ==
    IF p = NilPtr THEN [null |-> TRUE]
    ELSE LET r == p[1]
         IN [pid |-> r.PID, role |-> r.Role, first_seen |-> r.InitTimestamp,
             last_seen |-> r.Timestamp, age |-> r.Age,
             window_rate |-> r.WindowRate, standard_dev |-> r.StandardDev,
             lifetime_rate |-> r.LifetimeRate, current_rate |-> r.CurrentRate,
             times_restarted |-> r.TimesRestated,
             virtual_memory_bytes |-> r.VirtMemoryBytes,
             rss_bytes |-> r.RSSBytes, rate_histogram |-> r.RateHistogram]

\* encoding/json refuses a float64 that is NaN or an infinity
\* (UnsupportedValueError).
Unsupported(p) ==
    /\ p # NilPtr
    /\ \E f \in {p[1].WindowRate, p[1].StandardDev, p[1].LifetimeRate,
                 p[1].CurrentRate} : f \in NonFinite

\* A ([]byte, error) result.
Result(data, err) == [data |-> data, err |-> err]

\* json.Marshal(rep) of RoleToJSON, line 165.
MarshalOne(p) ==
    IF Unsupported(p) THEN Result(<<>>, errUnsupportedValue)
    ELSE Result(<<JSONObject(p)>>, noErr)

\* json.Marshal(l) of ToJSON, line 177: an array, in the order of l.
MarshalList(l) ==
    IF \E i \in 1..Len(l) : Unsupported(l[i])
    THEN Result(<<>>, errUnsupportedValue)
    ELSE Result(<<[array |-> [i \in 1..Len(l) |-> JSONObject(l[i])]]>>, noErr)

\* A store that keeps the entry a role already has.
MapStoreKeepFirst(mm, p) ==
    IF p[1].Role \in DOMAIN mm THEN mm
    ELSE [k \in DOMAIN mm \cup {p[1].Role} |->
             IF k = p[1].Role THEN p[1] ELSE mm[k]]

\* s.m[r.Role] = r, line 85.
MapStore(mm, p) ==
    [k \in DOMAIN mm \cup {p[1].Role} |-> IF k = p[1].Role THEN p[1] ELSE mm[k]]

\* v, ok := s.m[role], lines 105-108.
MapLookup(mm, role) == IF role \in DOMAIN mm THEN Ptr(mm[role]) ELSE NilPtr

VARIABLES
    m,            \* Summaries.m of metricsReport: role -> report
    readerCount,  \* Summaries.mtx: read locks held
    writer,       \* Summaries.mtx: "none", "pending" (Lock called, waiting
                  \* for the readers to leave) or "held"
    pc,           \* each goroutine's position
    op,           \* the store method a reader goroutine called
    loc,          \* each goroutine's local variables
    ch,           \* the report channel c: TRUE when a goroutine is blocked
                  \* on sending to it
    tick,         \* a value is waiting in tick.C
    out,          \* the lines written to os.Stdout
    inserted,     \* history: per role, the argument of the last Insert
                  \* that returned
    received,     \* history: per role, the last report received from c
    eos,          \* history: nil was received from c
    ctx,          \* main's context: "live", "cancelled" (cancel() was
                  \* called) or "exited" (main has returned)
    window,       \* a Sample Window: its samples, oldest first
    pushed,       \* history: every sample pushed to the window, in order
    roleState,    \* the Rate Computer's RoleState of each role observed
    observed,     \* history: per role, the observations made of it, in order
    emitted       \* the report the Rate Computer emitted last, if any

vars == <<m, readerCount, writer, pc, op, loc, ch, tick, out, inserted,
          received, eos, ctx, window, pushed, roleState, observed, emitted>>

NoResult == Result(<<>>, noErr)

\* The local variables of a goroutine that is in no call.
NoLocals ==
    [role |-> "", todo |-> {}, l |-> <<>>, rep |-> NilPtr, n |-> 0, c |-> 0,
     v |-> NilPtr, res |-> NoResult, b |-> FALSE]

\* metricsReport as constructed, the ticker just created, nobody sending.
Init ==
    /\ m = <<>>
    /\ readerCount = 0
    /\ writer = "none"
    /\ pc = [t \in Threads |-> IF t = Sched THEN "select" ELSE "idle"]
    /\ op = [t \in Threads |-> ""]
    /\ loc = [t \in Threads |-> NoLocals]
    /\ ch = FALSE
    /\ tick = FALSE
    /\ out = <<>>
    /\ inserted = [r \in Roles |-> NilPtr]
    /\ received = [r \in Roles |-> NilPtr]
    /\ eos = FALSE
    /\ ctx = "live"
    /\ window = <<>>
    /\ pushed = <<>>
    /\ roleState = <<>>
    /\ observed = [r \in Roles |-> <<>>]
    /\ emitted = NilPtr

----------------------------------------------------------------------------
\* sync.RWMutex.  A goroutine calling RLock waits while a writer holds the
\* lock or is waiting for it; a writer calling Lock first bars new readers,
\* then waits until the readers that hold the lock have left.

RLock ==
    /\ writer = "none"
    /\ readerCount' = readerCount + 1
    /\ UNCHANGED writer

RUnlock ==
    /\ readerCount' = readerCount - 1
    /\ UNCHANGED writer

LockAnnounce ==
    /\ writer = "none"
    /\ writer' = "pending"
    /\ UNCHANGED readerCount

LockAcquire ==
    /\ writer = "pending"
    /\ readerCount = 0
    /\ writer' = "held"
    /\ UNCHANGED readerCount

Unlock ==
    /\ writer' = "none"
    /\ UNCHANGED readerCount

Goto(t, p) == pc' = [pc EXCEPT ![t] = p]
Set(t, l) == loc' = [loc EXCEPT ![t] = l]

Store == <<m, inserted>>
Mutex == <<readerCount, writer>>
\* The state of the components that compute the reports.
Pipeline == <<window, pushed, roleState, observed, emitted>>

\* What the goroutines of report.go never touch.
Outside == <<ctx, Pipeline>>
Env == <<ch, tick, out, received, eos, Outside>>

\* The continuation of a goroutine whose outermost call returns: a reader is
\* idle again, the reporting goroutine is back at its select.
Home(t) == IF t = Sched THEN "select" ELSE "idle"

Leave(t) ==
    /\ Goto(t, Home(t))
    /\ op' = [op EXCEPT ![t] = ""]
    /\ Set(t, NoLocals)

----------------------------------------------------------------------------
\* func (s *Summaries) Insert(r *IntervalReport)

InsertLock(t) ==
    /\ pc[t] = "Insert"
    /\ LockAnnounce
    /\ Goto(t, "Insert.wait")
    /\ UNCHANGED <<Store, op, loc, Env>>

\* A Lock that does not wait for the readers holding the lock.
InsertAcquireNoWait(t) ==
    /\ pc[t] = "Insert.wait"
    /\ writer = "pending"
    /\ writer' = "held"
    /\ UNCHANGED readerCount
    /\ Goto(t, "Insert.store")
    /\ UNCHANGED <<Store, op, loc, Env>>

InsertAcquire(t) ==
    /\ pc[t] = "Insert.wait"
    /\ LockAcquire
    /\ Goto(t, "Insert.store")
    /\ UNCHANGED <<Store, op, loc, Env>>

\* An Insert that starts the map over with the one report.
InsertStoreAlone(t) ==
    /\ pc[t] = "Insert.store"
    /\ m' = MapStore(<<>>, loc[t].v)
    /\ inserted' = [inserted EXCEPT ![loc[t].v[1].Role] = loc[t].v]
    /\ Unlock
    /\ Leave(t)
    /\ UNCHANGED Env

\* s.m[r.Role] = r, the deferred Unlock, and the return.
InsertStore(t) ==
    /\ pc[t] = "Insert.store"
    /\ m' = MapStore(m, loc[t].v)
    /\ inserted' = [inserted EXCEPT ![loc[t].v[1].Role] = loc[t].v]
    /\ Unlock
    /\ Leave(t)
    /\ UNCHANGED Env

----------------------------------------------------------------------------
\* func (s *Summaries) Len() int
LenOf(mm) == Cardinality(DOMAIN mm)

\* Len() called by a reader goroutine.
LenRLock(t) ==
    /\ pc[t] = "Len"
    /\ RLock
    /\ Goto(t, "Len.in")
    /\ UNCHANGED <<Store, op, loc, Env>>

\* return len(s.m): the result.
LenRead(t) ==
    /\ pc[t] = "Len.in"
    /\ Set(t, [loc[t] EXCEPT !.n = LenOf(m)])
    /\ Goto(t, "Len.ret")
    /\ UNCHANGED <<Store, Mutex, op, Env>>

\* The deferred RUnlock and the return.
LenReturn(t) ==
    /\ pc[t] = "Len.ret"
    /\ RUnlock
    /\ Leave(t)
    /\ UNCHANGED <<Store, Env>>

\* func (s *Summaries) Empty() bool
EmptyRLock(t) ==
    /\ pc[t] = "Empty"
    /\ RLock
    /\ Goto(t, "Empty.in")
    /\ UNCHANGED <<Store, op, loc, Env>>

\* An Empty() whose caller serializes whatever the result.
EmptyReturnAlways(t) ==
    /\ t = Sched
    /\ pc[t] = "Empty.in"
    /\ RUnlock
    /\ Goto(t, "ToJSON")
    /\ op' = [op EXCEPT ![t] = "ToJSON"]
    /\ UNCHANGED loc
    /\ UNCHANGED <<Store, Env>>

\* Called by the reporting goroutine: return len(s.m) == 0, the deferred
\* RUnlock, and the caller's branch on the result (line 60).
EmptyReturn(t) ==
    /\ t = Sched
    /\ pc[t] = "Empty.in"
    /\ RUnlock
    /\ IF LenOf(m) = 0
       THEN Leave(t)
       ELSE /\ Goto(t, "ToJSON")
            /\ op' = [op EXCEPT ![t] = "ToJSON"]
            /\ UNCHANGED loc
    /\ UNCHANGED <<Store, Env>>

\* Called by a reader goroutine: return len(s.m) == 0, the result.
EmptyRead(t) ==
    /\ t # Sched
    /\ pc[t] = "Empty.in"
    /\ Set(t, [loc[t] EXCEPT !.b = (Cardinality(DOMAIN m) = 0)])
    /\ Goto(t, "Empty.ret")
    /\ UNCHANGED <<Store, Mutex, op, Env>>

\* The deferred RUnlock and the return to the reader.
EmptyLeave(t) ==
    /\ pc[t] = "Empty.ret"
    /\ RUnlock
    /\ Leave(t)
    /\ UNCHANGED <<Store, Env>>

----------------------------------------------------------------------------
\* func (s *Summaries) findRole(role string) *IntervalReport

FindRoleRLock(t) ==
    /\ pc[t] = "findRole"
    /\ RLock
    /\ Goto(t, "findRole.lookup")
    /\ UNCHANGED <<Store, op, loc, Env>>

\* A lookup that hands out the sanitized copy.
FindRoleLookupSafe(t) ==
    /\ pc[t] = "findRole.lookup"
    /\ Set(t, [loc[t] EXCEPT !.rep = IF loc[t].role \in DOMAIN m
                                     THEN Ptr(SafeCopy(m[loc[t].role]))
                                     ELSE NilPtr])
    /\ Goto(t, "findRole.ret")
    /\ UNCHANGED <<Store, Mutex, op, Env>>

FindRoleLookup(t) ==
    /\ pc[t] = "findRole.lookup"
    /\ Set(t, [loc[t] EXCEPT !.rep = MapLookup(m, loc[t].role)])
    /\ Goto(t, "findRole.ret")
    /\ UNCHANGED <<Store, Mutex, op, Env>>

\* The deferred RUnlock and the return, to safeIntervalReport or to the
\* reader that called findRole itself.
FindRoleReturn(t) ==
    /\ pc[t] = "findRole.ret"
    /\ RUnlock
    /\ IF op[t] = "findRole"
       THEN Leave(t)
       ELSE Goto(t, "safeIntervalReport.copy") /\ UNCHANGED <<op, loc>>
    /\ UNCHANGED <<Store, Env>>

----------------------------------------------------------------------------
\* func (s *Summaries) safeIntervalReport(role string) *IntervalReport

SafeIntervalReportRLock(t) ==
    /\ pc[t] = "safeIntervalReport"
    /\ RLock
    /\ Goto(t, "findRole")
    /\ UNCHANGED <<Store, op, loc, Env>>

\* A sanitization done in place: the NaN rates of the stored report itself
\* are set to -1.
SafeIntervalReportCopyInPlace(t) ==
    /\ pc[t] = "safeIntervalReport.copy"
    /\ Set(t, [loc[t] EXCEPT !.rep = IF loc[t].rep = NilPtr THEN NilPtr
                                     ELSE Ptr(SafeCopy(loc[t].rep[1]))])
    /\ m' = IF loc[t].rep = NilPtr THEN m
            ELSE [m EXCEPT ![loc[t].role] = SafeCopy(loc[t].rep[1])]
    /\ Goto(t, "safeIntervalReport.ret")
    /\ UNCHANGED <<inserted, Mutex, op, Env>>

\* Lines 118-150: nil for a role that is not there, else the sanitized copy.
SafeIntervalReportCopy(t) ==
    /\ pc[t] = "safeIntervalReport.copy"
    /\ Set(t, [loc[t] EXCEPT !.rep = IF loc[t].rep = NilPtr THEN NilPtr
                                     ELSE Ptr(SafeCopy(loc[t].rep[1]))])
    /\ Goto(t, "safeIntervalReport.ret")
    /\ UNCHANGED <<Store, Mutex, op, Env>>

\* The deferred RUnlock and the return into the caller's statement: the
\* append of ToJSON (line 175), the nil test of RoleToJSON (line 161), the
\* l[c] = ...; c++ of All (lines 192-194).
SafeIntervalReportReturn(t) ==
    /\ pc[t] = "safeIntervalReport.ret"
    /\ RUnlock
    /\ CASE op[t] = "ToJSON" ->
              /\ Set(t, [loc[t] EXCEPT !.l = Append(@, loc[t].rep),
                                       !.rep = NilPtr, !.role = ""])
              /\ Goto(t, "ToJSON.range")
         [] op[t] = "RoleToJSON" ->
              /\ Goto(t, "RoleToJSON.check")
              /\ UNCHANGED loc
         [] op[t] = "All" ->
              IF loc[t].c < Len(loc[t].l)
              THEN /\ Set(t, [loc[t] EXCEPT !.l[loc[t].c + 1] = loc[t].rep,
                                            !.c = @ + 1,
                                            !.rep = NilPtr, !.role = ""])
                   /\ Goto(t, "All.range")
              ELSE \* index out of range
                   /\ Goto(t, "panic")
                   /\ UNCHANGED loc
    /\ UNCHANGED <<Store, op, Env>>

----------------------------------------------------------------------------
\* func (s *Summaries) RoleToJSON(role string) ([]byte, error)

RoleToJSONRLock(t) ==
    /\ pc[t] = "RoleToJSON"
    /\ RLock
    /\ Goto(t, "safeIntervalReport")
    /\ UNCHANGED <<Store, op, loc, Env>>

\* A RoleToJSON that reports a missing role only when the store is empty.
RoleToJSONCheckEmptyStore(t) ==
    /\ pc[t] = "RoleToJSON.check"
    /\ Set(t, [loc[t] EXCEPT !.res = IF DOMAIN m = {}
                                     THEN Result(<<>>, errNoInfoForRole)
                                     ELSE MarshalOne(loc[t].rep)])
    /\ Goto(t, "RoleToJSON.ret")
    /\ UNCHANGED <<Store, Mutex, op, Env>>

\* Lines 161-165.
RoleToJSONCheck(t) ==
    /\ pc[t] = "RoleToJSON.check"
    /\ Set(t, [loc[t] EXCEPT !.res = IF loc[t].rep = NilPtr
                                     THEN Result(<<>>, errNoInfoForRole)
                                     ELSE MarshalOne(loc[t].rep)])
    /\ Goto(t, "RoleToJSON.ret")
    /\ UNCHANGED <<Store, Mutex, op, Env>>

RoleToJSONReturn(t) ==
    /\ pc[t] = "RoleToJSON.ret"
    /\ RUnlock
    /\ Leave(t)
    /\ UNCHANGED <<Store, Env>>

----------------------------------------------------------------------------
\* func (s *Summaries) ToJSON() ([]byte, error)

\* RLock, l := make(..., 0), and the start of the range over s.m.
ToJSONRLock(t) ==
    /\ pc[t] = "ToJSON"
    /\ RLock
    /\ Set(t, [loc[t] EXCEPT !.l = <<>>, !.todo = DOMAIN m])
    /\ Goto(t, "ToJSON.range")
    /\ UNCHANGED <<Store, op, Env>>

\* The next role of the range, in the map's order, which is any order.
ToJSONRange(t) ==
    /\ pc[t] = "ToJSON.range"
    /\ \E role \in loc[t].todo :
          Set(t, [loc[t] EXCEPT !.role = role, !.todo = @ \ {role}])
    /\ Goto(t, "safeIntervalReport")
    /\ UNCHANGED <<Store, Mutex, op, Env>>

ToJSONMarshal(t) ==
    /\ pc[t] = "ToJSON.range"
    /\ loc[t].todo = {}
    /\ Set(t, [loc[t] EXCEPT !.res = MarshalList(loc[t].l), !.l = <<>>])
    /\ Goto(t, "ToJSON.ret")
    /\ UNCHANGED <<Store, Mutex, op, Env>>

\* The deferred RUnlock and the return: to line 62 of startIntervalReport,
\* or to the reader.
ToJSONReturn(t) ==
    /\ pc[t] = "ToJSON.ret"
    /\ RUnlock
    /\ IF t = Sched
       THEN Goto(t, "flushed") /\ UNCHANGED <<op, loc>>
       ELSE Leave(t)
    /\ UNCHANGED <<Store, Env>>

----------------------------------------------------------------------------
\* func (s *Summaries) All() ([]*IntervalReport, error)

\* A ([]*IntervalReport, error) result; the slice is nil or holds list.
AllResult(list, isNil, err) == [list |-> list, isNil |-> isNil, err |-> err]

AllRLock(t) ==
    /\ pc[t] = "All"
    /\ RLock
    /\ Goto(t, "All.Len1")
    /\ UNCHANGED <<Store, op, loc, Env>>

\* s.Len() of line 185: its RLock.
AllLen1RLock(t) ==
    /\ pc[t] = "All.Len1"
    /\ RLock
    /\ Goto(t, "All.Len1.in")
    /\ UNCHANGED <<Store, op, loc, Env>>

\* An All without the test for the empty store.
AllLen1ReturnNoCheck(t) ==
    /\ pc[t] = "All.Len1.in"
    /\ RUnlock
    /\ Goto(t, "All.Len2")
    /\ UNCHANGED <<Store, op, loc, Env>>

\* s.Len() of line 185 returns, and lines 185-187.
AllLen1Return(t) ==
    /\ pc[t] = "All.Len1.in"
    /\ RUnlock
    /\ IF LenOf(m) = 0
       THEN /\ Set(t, [loc[t] EXCEPT
                          !.res = AllResult(<<>>, TRUE, errZeroSummaries)])
            /\ Goto(t, "All.ret")
       ELSE /\ Goto(t, "All.Len2")
            /\ UNCHANGED loc
    /\ UNCHANGED <<Store, op, Env>>

\* s.Len() of line 188: its RLock.
AllLen2RLock(t) ==
    /\ pc[t] = "All.Len2"
    /\ RLock
    /\ Goto(t, "All.Len2.in")
    /\ UNCHANGED <<Store, op, loc, Env>>

\* s.Len() of line 188 returns; l := make(..., s.Len()), c = 0, and the start
\* of the range over s.m.
AllLen2Return(t) ==
    /\ pc[t] = "All.Len2.in"
    /\ RUnlock
    /\ Set(t, [loc[t] EXCEPT !.l = [i \in 1..LenOf(m) |-> NilPtr], !.c = 0,
                             !.todo = DOMAIN m])
    /\ Goto(t, "All.range")
    /\ UNCHANGED <<Store, op, Env>>

AllRange(t) ==
    /\ pc[t] = "All.range"
    /\ \E role \in loc[t].todo :
          Set(t, [loc[t] EXCEPT !.role = role, !.todo = @ \ {role}])
    /\ Goto(t, "safeIntervalReport")
    /\ UNCHANGED <<Store, Mutex, op, Env>>

\* return l, nil
AllDone(t) ==
    /\ pc[t] = "All.range"
    /\ loc[t].todo = {}
    /\ Set(t, [loc[t] EXCEPT !.res = AllResult(loc[t].l, FALSE, noErr),
                             !.l = <<>>, !.c = 0])
    /\ Goto(t, "All.ret")
    /\ UNCHANGED <<Store, Mutex, op, Env>>

AllReturn(t) ==
    /\ pc[t] = "All.ret"
    /\ RUnlock
    /\ Leave(t)
    /\ UNCHANGED <<Store, Env>>

----------------------------------------------------------------------------
\* func startIntervalReport(c <-chan *IntervalReport)

\* A receive that goes back to the select without inserting the report.
SchedRecvDrop(v) ==
    /\ pc[Sched] = "select"
    /\ ch
    /\ ch' = FALSE
    /\ IF v = NilPtr
       THEN /\ eos' = TRUE
            /\ Goto(Sched, "done")
            /\ UNCHANGED received
       ELSE /\ received' = [received EXCEPT ![v[1].Role] = v]
            /\ UNCHANGED <<pc, eos>>
    /\ UNCHANGED <<Store, Mutex, op, loc, tick, out, Outside>>

\* A receive that goes on with the loop after nil.
SchedRecvNoReturn(v) ==
    /\ pc[Sched] = "select"
    /\ ch
    /\ ch' = FALSE
    /\ IF v = NilPtr
       THEN /\ eos' = TRUE
            /\ UNCHANGED <<pc, op, loc, received>>
       ELSE /\ received' = [received EXCEPT ![v[1].Role] = v]
            /\ Set(Sched, [loc[Sched] EXCEPT !.v = v])
            /\ op' = [op EXCEPT ![Sched] = "Insert"]
            /\ Goto(Sched, "Insert")
            /\ UNCHANGED eos
    /\ UNCHANGED <<Store, Mutex, tick, out, Outside>>

\* case v := <-c: the rendezvous with the blocked sender, whose value is v;
\* return on nil, else the call of metricsReport.Insert(v).
SchedRecv(v) ==
    /\ pc[Sched] = "select"
    /\ ch
    /\ ch' = FALSE
    /\ IF v = NilPtr
       THEN /\ eos' = TRUE
            /\ Goto(Sched, "done")
            /\ UNCHANGED <<op, loc, received>>
       ELSE /\ received' = [received EXCEPT ![v[1].Role] = v]
            /\ Set(Sched, [loc[Sched] EXCEPT !.v = v])
            /\ op' = [op EXCEPT ![Sched] = "Insert"]
            /\ Goto(Sched, "Insert")
            /\ UNCHANGED eos
    /\ UNCHANGED <<Store, Mutex, tick, out, Outside>>

\* case <-tick.C: and the call of metricsReport.Empty().
SchedTick ==
    /\ pc[Sched] = "select"
    /\ tick
    /\ tick' = FALSE
    /\ op' = [op EXCEPT ![Sched] = "Empty"]
    /\ Goto(Sched, "Empty")
    /\ UNCHANGED <<Store, Mutex, loc, ch, out, received, eos, Outside>>

\* default: neither case is ready; wait on a new one second timer.
SchedDefault ==
    /\ pc[Sched] = "select"
    /\ ~ch
    /\ ~tick
    /\ Goto(Sched, "sleep")
    /\ UNCHANGED <<Store, Mutex, op, loc, Env>>

\* The one second timer fires.
SchedWake ==
    /\ pc[Sched] = "sleep"
    /\ Goto(Sched, "select")
    /\ UNCHANGED <<Store, Mutex, op, loc, Env>>

\* fmt.Fprintln(os.Stdout, string(data))
SchedWrite ==
    /\ pc[Sched] = "flushed"
    /\ loc[Sched].res.err = noErr
    /\ out' = Append(out, loc[Sched].res.data[1])
    /\ Leave(Sched)
    /\ UNCHANGED <<Store, Mutex, ch, tick, received, eos, Outside>>

\* A failed flush that ends the loop.
SchedLogErrFatal ==
    /\ pc[Sched] = "flushed"
    /\ loc[Sched].res.err # noErr
    /\ Goto(Sched, "done")
    /\ op' = [op EXCEPT ![Sched] = ""]
    /\ Set(Sched, NoLocals)
    /\ UNCHANGED <<Store, Mutex, Env>>

\* log.Printf(...); continue
SchedLogErr ==
    /\ pc[Sched] = "flushed"
    /\ loc[Sched].res.err # noErr
    /\ Leave(Sched)
    /\ UNCHANGED <<Store, Mutex, Env>>

----------------------------------------------------------------------------
\* The goroutines around the store.

\* What is sent to the report channel: a report, or the nil that ends the
\* stream.
Messages == {Ptr(r) : r \in Reports} \cup {NilPtr}

\* A goroutine blocks on sending to the report channel.
Send ==
    /\ ~ch
    /\ ch' = TRUE
    /\ UNCHANGED <<Store, Mutex, pc, op, loc, tick, out, received, eos,
                   Outside>>

\* The ticker puts a value into tick.C, which holds one.
Tick ==
    /\ ~tick
    /\ Len(out) < MaxOut
    /\ tick' = TRUE
    /\ UNCHANGED <<Store, Mutex, pc, op, loc, ch, out, received, eos,
                   Outside>>

\* A reader goroutine calls a read method of metricsReport.
ReaderOps == {"findRole", "RoleToJSON", "ToJSON", "All", "Len", "Empty"}

Call(t, o, role) ==
    /\ pc[t] = "idle"
    /\ op' = [op EXCEPT ![t] = o]
    /\ Set(t, [NoLocals EXCEPT
                 !.role = IF o \in {"findRole", "RoleToJSON"} THEN role ELSE ""])
    /\ Goto(t, o)
    /\ UNCHANGED <<Store, Mutex, Env>>

\* One step of goroutine t inside a method of the store.
StoreStep(t) ==
    \/ InsertLock(t) \/ InsertAcquire(t) \/ InsertStore(t)
    \/ LenRLock(t) \/ LenRead(t) \/ LenReturn(t)
    \/ EmptyRLock(t) \/ EmptyReturn(t) \/ EmptyRead(t) \/ EmptyLeave(t)
    \/ FindRoleRLock(t) \/ FindRoleLookup(t) \/ FindRoleReturn(t)
    \/ SafeIntervalReportRLock(t) \/ SafeIntervalReportCopy(t)
    \/ SafeIntervalReportReturn(t)
    \/ RoleToJSONRLock(t) \/ RoleToJSONCheck(t) \/ RoleToJSONReturn(t)
    \/ ToJSONRLock(t) \/ ToJSONRange(t) \/ ToJSONMarshal(t) \/ ToJSONReturn(t)
    \/ AllRLock(t) \/ AllLen1RLock(t) \/ AllLen1Return(t)
    \/ AllLen2RLock(t) \/ AllLen2Return(t)
    \/ AllRange(t) \/ AllDone(t) \/ AllReturn(t)

Next ==
    \/ \E t \in Threads : StoreStep(t)
    \/ \E t \in Readers, o \in ReaderOps, role \in Roles : Call(t, o, role)
    \/ \E v \in Messages : SchedRecv(v)
    \/ SchedTick \/ SchedDefault \/ SchedWake
    \/ SchedWrite \/ SchedLogErr
    \/ Send
    \/ Tick

Spec == Init /\ [][Next]_vars

----------------------------------------------------------------------------
\* Properties.

\* The positions at which a goroutine is about to call RLock.
RLockPcs ==
    {"Len", "Empty", "findRole", "safeIntervalReport", "RoleToJSON", "ToJSON",
     "All", "All.Len1", "All.Len2"}

\* Goroutine t is inside a method of the store.
InCall(t) == pc[t] \notin {"idle", "select", "sleep", "flushed", "done", "panic"}

\* Goroutine t waits for the mutex and cannot get it in this state.
Blocked(t) ==
    \/ pc[t] \in RLockPcs /\ writer # "none"
    \/ pc[t] = "Insert" /\ writer # "none"
    \/ pc[t] = "Insert.wait" /\ readerCount # 0

\* Every goroutine inside the store waits for the mutex, and one is.  No step
\* of the model changes readerCount or writer from such a state: only a
\* goroutine inside the store releases the mutex.
Deadlock ==
    /\ \E t \in Threads : InCall(t)
    /\ \A t \in Threads : InCall(t) => Blocked(t)

\* C1: with readers calling ToJSON and the one writer calling Insert, no
\* interleaving reaches a state in which a started ToJSON and the started
\* Insert wait for each other for ever.
C1_NoDeadlock ==
    ~ /\ Deadlock
      /\ pc[Sched] = "Insert.wait"
      /\ \E t \in Readers : op[t] = "ToJSON" /\ InCall(t)

\* The structured decoder of one element of the wire format: the report a
\* JSON object spells, nil for null.
Unmarshal(obj) ==
    IF obj = [null |-> TRUE] THEN NilPtr
    ELSE Ptr([PID |-> obj.pid, Role |-> obj.role,
              InitTimestamp |-> obj.first_seen, Timestamp |-> obj.last_seen,
              Age |-> obj.age, WindowRate |-> obj.window_rate,
              StandardDev |-> obj.standard_dev,
              LifetimeRate |-> obj.lifetime_rate,
              CurrentRate |-> obj.current_rate,
              TimesRestated |-> obj.times_restarted,
              VirtMemoryBytes |-> obj.virtual_memory_bytes,
              RSSBytes |-> obj.rss_bytes,
              RateHistogram |-> obj.rate_histogram])

RateFields == {"WindowRate", "StandardDev", "LifetimeRate", "CurrentRate"}
OtherFields ==
    {"PID", "Role", "InitTimestamp", "Timestamp", "Age", "TimesRestated",
     "VirtMemoryBytes", "RSSBytes", "RateHistogram"}

\* got is the report stored, field for field, but for a NaN rate read as -1.
SameUpToNaN(stored, got) ==
    /\ DOMAIN got = RateFields \cup OtherFields
    /\ \A f \in OtherFields : got[f] = stored[f]
    /\ \A f \in RateFields :
          \/ got[f] = stored[f]
          \/ stored[f] = "NaN" /\ got[f] = "-1"

\* Goroutine t is about to return from the read method o it called (the
\* result is computed, the read lock still held).
Returning(t, o) == op[t] = o /\ pc[t] = o \o ".ret"

\* The pointers to reports in the result goroutine t is about to return.
Returned(t) ==
    CASE Returning(t, "findRole") -> {loc[t].rep} \ {NilPtr}
      [] Returning(t, "RoleToJSON") ->
           {Unmarshal(loc[t].res.data[i]) : i \in 1..Len(loc[t].res.data)}
      [] Returning(t, "ToJSON") ->
           IF loc[t].res.err = noErr
           THEN {Unmarshal(loc[t].res.data[1].array[i]) :
                    i \in 1..Len(loc[t].res.data[1].array)}
           ELSE {}
      [] Returning(t, "All") ->
           {loc[t].res.list[i] : i \in 1..Len(loc[t].res.list)}
      [] OTHER -> {}

\* C2: every report a read method returns is, up to the NaN sanitization,
\* one complete report that was passed to Insert for its role: the argument
\* of the last Insert that returned, also while the next Insert waits for
\* the lock; and findRole and RoleToJSON return the role asked for.
C2_ReadsLinearizable ==
    \A t \in Threads : \A x \in Returned(t) :
        /\ x # NilPtr
        /\ x[1].Role \in Roles
        /\ inserted[x[1].Role] # NilPtr
        /\ SameUpToNaN(inserted[x[1].Role][1], x[1])
        /\ op[t] \in {"findRole", "RoleToJSON"} => x[1].Role = loc[t].role

\* A reader is about to return the serialization of a report of a role while
\* Insert waits for the lock with another report of that role.
C2_Witness ==
    \E t \in Readers :
        /\ Returning(t, "ToJSON")
        /\ pc[Sched] = "Insert.wait"
        /\ \E x \in Returned(t) :
              /\ x[1].Role = loc[Sched].v[1].Role
              /\ x[1].PID # loc[Sched].v[1].PID

\* The scheduler goroutine is inside Insert.
Inserting == pc[Sched] \in {"Insert", "Insert.wait", "Insert.store"}

\* C3: the store holds at most one entry per role, filed under the role it
\* reports; once an Insert has returned, the entry of a role is the argument
\* of the last Insert for that role and a role never inserted has no entry;
\* and an Insert leaves the entry of every other role as it was.
C3_LastWriteWins ==
    /\ [](/\ DOMAIN m \subseteq Roles
          /\ \A k \in DOMAIN m : m[k].Role = k
          /\ \A k \in Roles : MapLookup(m, k) = inserted[k])
    /\ [][\A t \in Threads : InsertStore(t) =>
             \A k \in Roles \ {loc[t].v[1].Role} :
                 MapLookup(m', k) = MapLookup(m, k)]_vars

\* A report of a role was written out, the role's entry has since been
\* replaced by a later report, and the other role has an entry too.
C3_Witness ==
    /\ DOMAIN m = Roles
    /\ m["manager"].PID = 2
    /\ out # <<>>
    /\ \E i \in 1..Len(out[1].array) :
          out[1].array[i].role = "manager" /\ out[1].array[i].pid = 1

\* C4: findRole returns exactly the argument of the last Insert that returned
\* for the role asked, its rates as inserted, NaN included; and nil for a
\* role never inserted.
C4_FindRoleExact ==
    \A t \in Threads :
        Returning(t, "findRole") => loc[t].rep = inserted[loc[t].role]

\* findRole is about to return a report whose rates are NaN, while another
\* role has an entry.
C4_Witness ==
    \E t \in Readers :
        /\ Returning(t, "findRole")
        /\ loc[t].rep # NilPtr
        /\ loc[t].rep[1].CurrentRate = "NaN"
        /\ DOMAIN m = Roles

\* What the wire format is to show for a stored rate.
WireRate(f) == IF f \in NonFinite THEN "-1" ELSE f

\* The object serialized for the stored report r shows each rate as the wire
\* format is to show it.
SanitizedOnWire(obj, r) ==
    /\ obj.window_rate = WireRate(r.WindowRate)
    /\ obj.standard_dev = WireRate(r.StandardDev)
    /\ obj.lifetime_rate = WireRate(r.LifetimeRate)
    /\ obj.current_rate = WireRate(r.CurrentRate)

\* C5: RoleToJSON of a stored role and ToJSON produce, for every stored
\* report, an object in which each NaN, +Inf or -Inf rate reads -1 and every
\* other rate is unchanged.
C5_NoNaNOrInfOnWire ==
    \A t \in Threads :
        /\ Returning(t, "RoleToJSON") /\ loc[t].role \in DOMAIN m =>
              /\ loc[t].res.err = noErr
              /\ SanitizedOnWire(loc[t].res.data[1], m[loc[t].role])
        /\ Returning(t, "ToJSON") =>
              /\ loc[t].res.err = noErr
              /\ \A i \in 1..Len(loc[t].res.data[1].array) :
                    LET obj == loc[t].res.data[1].array[i]
                    IN obj.role \in DOMAIN m /\ SanitizedOnWire(obj, m[obj.role])

\* A step of a serialization: of RoleToJSON or ToJSON with the methods they
\* call, or of the flush of the reporting goroutine.
SerializationStep ==
    \/ \E t \in Threads :
          \/ FindRoleRLock(t) \/ FindRoleLookup(t) \/ FindRoleReturn(t)
          \/ SafeIntervalReportRLock(t) \/ SafeIntervalReportCopy(t)
          \/ SafeIntervalReportReturn(t)
          \/ RoleToJSONRLock(t) \/ RoleToJSONCheck(t) \/ RoleToJSONReturn(t)
          \/ ToJSONRLock(t) \/ ToJSONRange(t) \/ ToJSONMarshal(t)
          \/ ToJSONReturn(t)
          \/ EmptyRLock(t) \/ EmptyReturn(t)
    \/ SchedTick \/ SchedWrite \/ SchedLogErr

\* C6: no step of a serialization changes the store, and the store only ever
\* holds reports as they were sent, NaN rates included, never a sanitized
\* copy.
C6_SerializationCopies ==
    /\ [][SerializationStep => m' = m]_vars
    /\ [](\A k \in DOMAIN m : m[k] \in Reports)

\* The flush wrote the manager's rates as -1 and the stored report still has
\* them NaN.
C6_Witness ==
    /\ out # <<>>
    /\ \E i \in 1..Len(out[1].array) :
          /\ out[1].array[i].role = "manager"
          /\ out[1].array[i].current_rate = "-1"
    /\ "manager" \in DOMAIN m
    /\ m["manager"].CurrentRate = "NaN"

\* C7: All on a store with no entry returns the error for the empty store
\* and a nil slice, never a slice with a nil error, and the store is still
\* empty when it returns; on a store with entries it does not return that
\* error.
C7_AllEmptyStore ==
    \A t \in Threads :
        Returning(t, "All") =>
            /\ (LenOf(m) = 0) <=> (loc[t].res.err = errZeroSummaries)
            /\ loc[t].res.err = errZeroSummaries =>
                  /\ loc[t].res.isNil
                  /\ loc[t].res.list = <<>>
                  /\ m = <<>>
                  /\ \A k \in Roles : inserted[k] = NilPtr
            /\ loc[t].res.err # errZeroSummaries =>
                  loc[t].res.err = noErr /\ ~loc[t].res.isNil

\* All is about to return the error for the empty store.
C7_Witness ==
    \E t \in Readers :
        Returning(t, "All") /\ loc[t].res.err = errZeroSummaries

\* C8: RoleToJSON returns errNoInfoForRole, and no bytes, exactly when no
\* Insert for the role asked has returned, whatever other roles the store
\* holds; the error is not the one of All; the stored entries are as
\* inserted when it returns.
C8_RoleNotFound ==
    /\ errNoInfoForRole # errZeroSummaries
    /\ \A t \in Threads :
          Returning(t, "RoleToJSON") =>
              /\ (loc[t].res.err = errNoInfoForRole)
                    <=> (inserted[loc[t].role] = NilPtr)
              /\ loc[t].res.err = errNoInfoForRole =>
                    /\ loc[t].res.data = <<>>
                    /\ \A k \in Roles : MapLookup(m, k) = inserted[k]

\* RoleToJSON is about to return errNoInfoForRole for a role never inserted
\* while the store holds another role.
C8_Witness ==
    \E t \in Readers :
        /\ Returning(t, "RoleToJSON")
        /\ loc[t].res.err = errNoInfoForRole
        /\ DOMAIN m # {}

\* The JSON array doc holds exactly one object per role received so far, the
\* last report received for that role up to the NaN sanitization.
ReflectsReceived(doc) ==
    /\ Len(doc.array) = Cardinality({k \in Roles : received[k] # NilPtr})
    /\ \A k \in Roles :
          received[k] # NilPtr =>
              \E i \in 1..Len(doc.array) :
                  /\ Unmarshal(doc.array[i]) # NilPtr
                  /\ SameUpToNaN(received[k][1], Unmarshal(doc.array[i])[1])

\* C9: outside Insert, every report received from the channel has been
\* inserted (per role, the last received is the last inserted); inside
\* Insert, the report being inserted is the one received last and it is the
\* only one outstanding; and every line written reflects, for each role, the
\* last report received before the write.
C9_InsertBeforeNext ==
    /\ [](~Inserting => \A k \in Roles : received[k] = inserted[k])
    /\ [](Inserting =>
             /\ loc[Sched].v # NilPtr
             /\ received[loc[Sched].v[1].Role] = loc[Sched].v
             /\ \A k \in Roles \ {loc[Sched].v[1].Role} :
                    received[k] = inserted[k])
    /\ [][out' # out =>
             /\ Len(out') = Len(out) + 1
             /\ SubSeq(out', 1, Len(out)) = out
             /\ ReflectsReceived(out'[Len(out')])]_vars

\* A line was written that holds both roles, the manager's second report
\* among them.
C9_Witness ==
    /\ out # <<>>
    /\ Len(out[1].array) = 2
    /\ \E i \in 1..2 : out[1].array[i].pid = 2
    /\ pc[Sched] = "select"

\* C10: once nil has been received the loop is at its end and stays there:
\* no step changes the store or writes a line, in the step of the receive or
\* after it; and nil is never the argument of Insert.
C10_NilTerminates ==
    /\ [](eos => pc[Sched] = "done")
    /\ [](Inserting => loc[Sched].v # NilPtr)
    /\ [][eos' => m' = m /\ inserted' = inserted /\ out' = out]_vars
    /\ [][eos => eos' /\ pc'[Sched] = "done"]_vars

\* The loop has ended on nil with a report in the store, and a sender and a
\* tick wait that nothing will serve.
C10_Witness ==
    /\ eos
    /\ pc[Sched] = "done"
    /\ ch
    /\ tick
    /\ m # <<>>

----------------------------------------------------------------------------
\* The periodic flush.

\* The reporting goroutine is serving a tick: between case <-tick.C and the
\* end of that case's body.
ServingTick == op[Sched] \in {"Empty", "ToJSON"}

\* A step that writes to os.Stdout.
Writes == out' # out

\* A step that ends the service of a tick.
TickServed == ServingTick /\ ~ServingTick'

\* C11: a tick is served only after the ticker delivered it, the store is
\* not changed while it is served, and the service ends with one line
\* written (the serialization ToJSON returned) exactly when the store was not
\* empty and ToJSON returned no error; nothing else writes, so a tick with an
\* empty store writes nothing and no tick writes twice.
C11_FlushIffNonEmptyAndEncoded ==
    [][/\ (~ServingTick /\ ServingTick') => (tick /\ ~tick' /\ out' = out)
       /\ ServingTick => m' = m
       /\ Writes => /\ TickServed
                    /\ pc[Sched] = "flushed"
                    /\ out' = Append(out, loc[Sched].res.data[1])
       /\ TickServed => (Writes <=> (m # <<>> /\ loc[Sched].res.err = noErr))
      ]_vars

\* The store was not empty at a tick, ToJSON succeeded and the line is
\* written.
C11_Witness ==
    /\ out # <<>>
    /\ m # <<>>
    /\ pc[Sched] = "select"

\* The reports of the store can be encoded: none has a rate that
\* encoding/json refuses once safeIntervalReport has copied it.
Encodable(mm) == \A k \in DOMAIN mm : ~Unsupported(Ptr(SafeCopy(mm[k])))

\* The flush of the tick being served has failed: ToJSON returned an error.
FlushFailed == pc[Sched] = "flushed" /\ loc[Sched].res.err # noErr

\* C12: a flush whose serialization failed writes nothing, leaves the store
\* as it was and takes the reporting goroutine back to its select, where it
\* goes on receiving reports and serving ticks; whether a flush fails
\* depends on the reports the store holds at that tick only, so a tick
\* served once they can be encoded succeeds.
C12_FlushFailureNonFatal ==
    /\ [][(FlushFailed /\ TickServed) =>
             /\ out' = out
             /\ m' = m
             /\ pc'[Sched] = "select"
             /\ eos' = eos]_vars
    /\ [](pc[Sched] = "flushed" =>
             (loc[Sched].res.err = noErr <=> Encodable(m)))

\* A flush has failed while the next report and the next tick are waiting.
C12_Witness ==
    /\ FlushFailed
    /\ ~Encodable(m)
    /\ ch
    /\ tick

----------------------------------------------------------------------------
\* func main(): the context, and what its cancellation does to the
\* reporting goroutine.

\* The goroutines run until main returns.
Running == ctx # "exited"

\* os.Interrupt arrives and the signal goroutine calls cancel().
Cancel ==
    /\ ctx = "live"
    /\ ctx' = "cancelled"
    /\ UNCHANGED <<Store, Mutex, pc, op, loc, ch, tick, out, received, eos,
                   Pipeline>>

\* <-ctx.Done() returns and main returns with it: the program ends, every
\* goroutine where it stands.  main waits for nothing else, and
\* startIntervalReport was not given the context.
MainReturn ==
    /\ ctx = "cancelled"
    /\ ctx' = "exited"
    /\ UNCHANGED <<Store, Mutex, pc, op, loc, ch, tick, out, received, eos,
                   Pipeline>>

\* The program with the interrupt.
NextCancel ==
    \/ Running /\ Next
    \/ Cancel
    \/ MainReturn

CancelSpec == Init /\ [][NextCancel]_vars

\* C13: once the context is cancelled, the reporting goroutine finishes the
\* Insert it is in and leaves its loop, so that the program does not end
\* with an Insert in flight or with the loop still running; the store keeps
\* every role it held.
C13_CancelDrainsAndExits ==
    /\ ctx = "exited" => /\ ~Inserting
                         /\ pc[Sched] = "done"
    /\ ctx # "live" => \A r \in Roles : inserted[r] # NilPtr => r \in DOMAIN m

----------------------------------------------------------------------------
\* The loop under fair scheduling.

\* One step of the reporting goroutine.
SchedStep ==
    \/ StoreStep(Sched)
    \/ \E v \in Messages : SchedRecv(v)
    \/ SchedTick \/ SchedDefault \/ SchedWake
    \/ SchedWrite \/ SchedLogErr

\* The Go scheduler runs every goroutine that can take a step, and a select
\* with several ready cases picks one at random, so a case that is ready
\* again and again is taken.
FairSpec ==
    /\ Spec
    /\ WF_vars(SchedStep)
    /\ \A t \in Readers : WF_vars(StoreStep(t))
    /\ SF_vars(SchedTick)
    /\ SF_vars(\E v \in Messages : SchedRecv(v))

\* The loop has not returned.
LoopRunning == pc[Sched] # "done"

\* C14: while the loop runs, a tick that is due is served, a goroutine that
\* is ready to send its report is received from, and the wait of the default
\* case ends and the loop is back at its select.
C14_LoopServesTickAndChannel ==
    /\ (tick /\ LoopRunning) ~> (~tick \/ ~LoopRunning)
    /\ (ch /\ LoopRunning) ~> (~ch \/ ~LoopRunning)
    /\ (pc[Sched] = "sleep") ~> (pc[Sched] = "select")

----------------------------------------------------------------------------
\* func (i IntervalReport) String() string.  A string is the sequence of its
\* pieces; "\n" is a piece of its own.

\* time.Time.Unix()
Unix(t) == t.sec

\* int(d.Seconds()): the whole seconds of a duration.
WholeSeconds(d) == d \div Second

\* fmt.Sprintf("<metric>{role=\"%s\"} %d", role, n)
Sprintf(metric, role, n) == <<metric, "{role=\"", role, "\"} ", ToString(n)>>

String(i) ==
    LET role == i.Role
        pid == Sprintf("bro_pid", role, i.PID)
        first_seen == Sprintf("bro_process_start_seconds", role,
                              Unix(i.Timestamp))
        age == Sprintf("bro_process_age_seconds", role, WholeSeconds(i.Age))
        vmem == Sprintf("bro_virtual_memory_bytes", role, i.VirtMemoryBytes)
    IN  pid \o <<"\n">> \o first_seen \o <<"\n">> \o age \o <<"\n">>
            \o vmem \o <<"\n">>

\* The lines of a text, each without its newline; what follows the last
\* newline is no line.
RECURSIVE LinesOf(_)
LinesOf(s) ==
    IF \A k \in 1..Len(s) : s[k] # "\n" THEN <<>>
    ELSE LET n == CHOOSE k \in 1..Len(s) :
                     s[k] = "\n" /\ \A j \in 1..(k - 1) : s[j] # "\n"
         IN  <<SubSeq(s, 1, n - 1)>> \o LinesOf(SubSeq(s, n + 1, Len(s)))

\* The text ends with a newline, or is empty.
NewlineTerminated(s) == s = <<>> \/ s[Len(s)] = "\n"

\* C15: the text of a report held by the store is four lines, each ended by
\* a newline: the pid, the start time (the report's first-seen time, in
\* epoch seconds), the age in whole seconds and the virtual memory in bytes,
\* each labelled with the report's role.
C15_TextExposition ==
    \A k \in DOMAIN m :
        LET r == m[k]
            text == String(r)
        IN  /\ NewlineTerminated(text)
            /\ LinesOf(text) =
                 << <<"bro_pid", "{role=\"", r.Role, "\"} ", ToString(r.PID)>>,
                    <<"bro_process_start_seconds", "{role=\"", r.Role, "\"} ",
                      ToString(r.InitTimestamp.sec)>>,
                    <<"bro_process_age_seconds", "{role=\"", r.Role, "\"} ",
                      ToString(r.Age \div Second)>>,
                    <<"bro_virtual_memory_bytes", "{role=\"", r.Role, "\"} ",
                      ToString(r.VirtMemoryBytes)>> >>

----------------------------------------------------------------------------
\* The Sample Window (spec 4.1).  A sample is an integer; a quotient is kept
\* as numerator and denominator, a square root as the number under the root,
\* and "NaN" is the value of an undefined result.

Samples == {10, 25, 40}

Ratio(a, b) == [num |-> a, den |-> b]

RECURSIVE Sum(_)
Sum(s) == IF s = <<>> THEN 0 ELSE Head(s) + Sum(Tail(s))

\* A push that drops the new sample when the window is full.
WindowPushKeepOldest(w, x) ==
    IF Len(w) + 1 > WindowLen THEN w ELSE Append(w, x)

\* push(sample): append, and evict the oldest if the capacity is exceeded.
WindowPush(w, x) ==
    IF Len(w) + 1 > WindowLen THEN Tail(Append(w, x)) ELSE Append(w, x)

\* mean(): the arithmetic mean of the contents, NaN if empty.
WindowMean(w) == IF w = <<>> THEN "NaN" ELSE Ratio(Sum(w), Len(w))

\* stddev(): the population standard deviation, two passes (the mean, then
\* the squared deviations from it), NaN with fewer than 2 samples.  With n
\* samples of sum S the deviation of x is (n*x - S)/n.
WindowStddev(w) ==
    IF Len(w) < 2 THEN "NaN"
    ELSE LET n == Len(w)
             S == Sum(w)
             sq == [i \in 1..n |-> (n * w[i] - S) * (n * w[i] - S)]
         IN  [sqrt |-> Ratio(Sum(sq), n * n * n)]

\* A caller pushes a sample.
Push(x) ==
    /\ Len(pushed) < MaxPush
    /\ window' = WindowPush(window, x)
    /\ pushed' = Append(pushed, x)
    /\ UNCHANGED <<Store, Mutex, pc, op, loc, ch, tick, out, received, eos,
                   ctx, roleState, observed, emitted>>

NextWindow == \E x \in Samples : Push(x)

WindowSpec == Init /\ [][NextWindow]_vars

\* The last n elements of s, all of s if it has fewer.
LastN(s, n) == [i \in 1..(IF Len(s) < n THEN Len(s) ELSE n) |->
                   s[i + (IF Len(s) < n THEN 0 ELSE Len(s) - n)]]

\* C16: the window never holds more than N samples; it holds the last N
\* samples pushed (all of them while fewer were pushed), oldest first; and
\* mean() and stddev() are those of exactly these samples.
C16_WindowKeepsLastN ==
    LET last == LastN(pushed, WindowLen)
        n == Len(last)
        S == Sum(last)
    IN  /\ Len(window) <= WindowLen
        /\ window = last
        /\ WindowMean(window) = IF n = 0 THEN "NaN" ELSE Ratio(S, n)
        /\ WindowStddev(window) =
              IF n < 2 THEN "NaN"
              ELSE [sqrt |-> Ratio(Sum([i \in 1..n |->
                                          (n * last[i] - S) * (n * last[i] - S)]),
                                   n * n * n)]

\* More than N samples were pushed and the evicted ones differ from the ones
\* that took their place.
C16_Witness ==
    /\ Len(pushed) = MaxPush
    /\ Len(window) = WindowLen
    /\ pushed[1] # pushed[WindowLen + 1]
    /\ Sum(window) # Sum(SubSeq(pushed, 1, WindowLen))

----------------------------------------------------------------------------
\* The Rate Computer (spec 4.2).  Times are whole seconds; a rate is kept in
\* percent, which the deltas of the model divide exactly.

Pids == {1, 2}

\* The roles in some order.
RoleSeq == <<"manager", "worker">>

\* ProcessObservation
Observation(role, pid, timestamp, cpu) ==
    [role |-> role, pid |-> pid, timestamp |-> timestamp, cpu |-> cpu,
     vmem |-> 4096 * pid, rss |-> 1024 * pid]

Observations ==
    {Observation(role, pid, ts, cpu) :
        role \in Roles, pid \in Pids, ts \in 0..MaxTime, cpu \in 0..MaxCPU}

\* The labelled ranges of the rate histogram.
Bucket(rate) ==
    IF rate < 10 THEN "0-10%" ELSE IF rate < 25 THEN "10-25%" ELSE "25%+"

Buckets == {"0-10%", "10-25%", "25%+"}

\* A quotient of two totals, NaN when the divisor is zero.
Quotient(a, b) == IF b = 0 THEN "NaN" ELSE (100 * a) \div b

\* First observation of a role.
FirstObservation(o) ==
    [firstSeen |-> o.timestamp, lastSeen |-> o.timestamp, lastPID |-> o.pid,
     lastCPU |-> o.cpu, restarts |-> 0, window |-> <<>>, totalCPU |-> 0,
     totalWall |-> 0, histogram |-> [b \in Buckets |-> 0]]

\* A restart that starts the role over.
RestartAsNewRole(st, o) == FirstObservation(o)

\* The PID differs from the last one: a restart.  The counter goes up, the
\* lifetime totals and the window start afresh, first-seen is kept.
Restart(st, o) ==
    [st EXCEPT !.restarts = st.restarts + 1, !.totalCPU = 0, !.totalWall = 0,
               !.window = <<>>, !.lastSeen = o.timestamp, !.lastPID = o.pid,
               !.lastCPU = o.cpu]

\* The same PID, later: the current rate goes to the window and to the
\* histogram, the deltas to the lifetime totals.
Sample(st, o) ==
    LET dcpu == o.cpu - st.lastCPU
        dt == o.timestamp - st.lastSeen
        cur == Quotient(dcpu, dt)
    IN  [st EXCEPT !.window = WindowPush(st.window, cur),
                   !.totalCPU = st.totalCPU + dcpu,
                   !.totalWall = st.totalWall + dt,
                   !.histogram[Bucket(cur)] = st.histogram[Bucket(cur)] + 1,
                   !.lastSeen = o.timestamp, !.lastCPU = o.cpu]

\* The IntervalReport assembled from a role's state; cur is the current
\* rate, NaN when there is none.
Assemble(o, st, cur) ==
    [PID |-> o.pid, Role |-> o.role, InitTimestamp |-> st.firstSeen,
     Timestamp |-> o.timestamp, Age |-> o.timestamp - st.firstSeen,
     WindowRate |-> WindowMean(st.window),
     StandardDev |-> WindowStddev(st.window),
     LifetimeRate |-> Quotient(st.totalCPU, st.totalWall),
     CurrentRate |-> cur, TimesRestated |-> st.restarts,
     VirtMemoryBytes |-> o.vmem, RSSBytes |-> o.rss,
     RateHistogram |-> st.histogram]

\* The computer is handed an observation.  A time delta that is not
\* positive is a non-event: nothing changes and nothing is emitted.
Observe(o) ==
    /\ Sum([i \in 1..Len(RoleSeq) |-> Len(observed[RoleSeq[i]])]) < MaxObs
    /\ observed' = [observed EXCEPT ![o.role] = Append(@, o)]
    /\ IF o.role \notin DOMAIN roleState
       THEN LET st == FirstObservation(o)
            IN  /\ roleState' = [r \in DOMAIN roleState \cup {o.role} |->
                                    IF r = o.role THEN st ELSE roleState[r]]
                /\ emitted' = Ptr(Assemble(o, st, "NaN"))
       ELSE IF o.pid # roleState[o.role].lastPID
       THEN LET st == Restart(roleState[o.role], o)
            IN  /\ roleState' = [roleState EXCEPT ![o.role] = st]
                /\ emitted' = Ptr(Assemble(o, st, "NaN"))
       ELSE IF o.timestamp - roleState[o.role].lastSeen <= 0
       THEN UNCHANGED <<roleState, emitted>>
       ELSE LET st == Sample(roleState[o.role], o)
            IN  /\ roleState' = [roleState EXCEPT ![o.role] = st]
                /\ emitted' =
                     Ptr(Assemble(o, st,
                           Quotient(o.cpu - roleState[o.role].lastCPU,
                                    o.timestamp - roleState[o.role].lastSeen)))
    /\ UNCHANGED <<Store, Mutex, pc, op, loc, ch, tick, out, received, eos,
                   ctx, window, pushed>>

NextRate == \E o \in Observations : Observe(o)

RateSpec == Init /\ [][NextRate]_vars

\* The PID changes in a history of observations of one role.
PidChanges(h) ==
    Cardinality({i \in 1..(Len(h) - 1) : h[i].pid # h[i + 1].pid})

\* C17: an observation of a role that has a state, with a PID other than
\* the last one stored, raises the role's restart counter by one and keeps
\* its first-seen time; one with the same PID leaves both as they were.  So
\* the counter of a role is the number of PID changes among its
\* observations, its first-seen time is the time of its first observation,
\* and the report emitted for an observation carries both.
C17_RestartCounter ==
    /\ [](\A r \in DOMAIN roleState :
             /\ roleState[r].restarts = PidChanges(observed[r])
             /\ roleState[r].firstSeen = observed[r][1].timestamp)
    /\ [][\A o \in Observations :
             (/\ observed' = [observed EXCEPT ![o.role] = Append(@, o)]
              /\ o.role \in DOMAIN roleState) =>
                 LET old == roleState[o.role]
                     new == roleState'[o.role]
                 IN  /\ new.firstSeen = old.firstSeen
                     /\ new.restarts = IF o.pid # old.lastPID
                                       THEN old.restarts + 1
                                       ELSE old.restarts
                     /\ emitted' # emitted =>
                           /\ emitted'[1].TimesRestated = new.restarts
                           /\ emitted'[1].InitTimestamp = old.firstSeen
          ]_vars

\* A role was observed twice with one PID and then with another, later than
\* it was first seen.
C17_Witness ==
    \E r \in DOMAIN roleState :
        /\ Len(observed[r]) = MaxObs
        /\ observed[r][1].pid = observed[r][2].pid
        /\ observed[r][2].pid # observed[r][3].pid
        /\ observed[r][1].timestamp < observed[r][3].timestamp
        /\ roleState[r].restarts = 1
        /\ emitted # NilPtr
        /\ emitted[1].TimesRestated = 1

----------------------------------------------------------------------------
\* C18: All on a store that is not empty returns one report for each role
\* stored: as many as Len(), none nil, no role twice; and each is the stored
\* report of its role field for field, a NaN rate still NaN.
C18_AllReturnsStored ==
    \A t \in Threads :
        (Returning(t, "All") /\ LenOf(m) > 0) =>
            LET l == loc[t].res.list
            IN  /\ loc[t].res.err = noErr
                /\ Len(l) = LenOf(m)
                /\ \A i \in 1..Len(l) : l[i] # NilPtr
                /\ \A i, j \in 1..Len(l) :
                      i # j => l[i][1].Role # l[j][1].Role
                /\ \A i \in 1..Len(l) :
                      /\ l[i][1].Role \in DOMAIN m
                      /\ \A f \in RateFields \cup OtherFields :
                            l[i][1][f] = m[l[i][1].Role][f]

----------------------------------------------------------------------------
\* What ToJSON is about to return in goroutine t holds one element for each
\* role of the store and no other.
OnePerRole(t) ==
    LET a == loc[t].res.data[1].array
    IN  /\ Len(a) = LenOf(m)
        /\ {a[i].role : i \in 1..Len(a)} = DOMAIN m

\* C19: ToJSON returns no error; on a store with no entry it returns the
\* empty list, where All returns its error; on a store with entries it
\* returns a list with exactly one element for each role stored.
C19_ToJSONEmptyAndPerRole ==
    \A t \in Threads :
        /\ Returning(t, "ToJSON") =>
              /\ loc[t].res.err = noErr
              /\ Len(loc[t].res.data) = 1
              /\ m = <<>> => loc[t].res.data[1] = [array |-> <<>>]
              /\ OnePerRole(t)
        /\ (Returning(t, "All") /\ m = <<>>) => loc[t].res.err # noErr

----------------------------------------------------------------------------
\* The roles for which an Insert has returned.
EverInserted == {r \in Roles : inserted[r] # NilPtr}

\* C20: no step takes a role out of the store, so its size never goes down
\* and a store that is not empty stays so, whatever the reporting goroutine
\* does (also once it has returned, or after a failed flush); the size is
\* the number of roles ever inserted, which is what Len() returns; and
\* Empty() returns true exactly when the size is 0.
C20_StoreNeverShrinks ==
    /\ [][/\ DOMAIN m \subseteq DOMAIN m'
          /\ LenOf(m') >= LenOf(m)
          /\ LenOf(m) > 0 => LenOf(m') > 0]_vars
    /\ [](LenOf(m) = Cardinality(EverInserted))
    /\ [](\A t \in Threads :
             /\ Returning(t, "Len") => loc[t].n = Cardinality(EverInserted)
             /\ Returning(t, "Empty") => (loc[t].b <=> LenOf(m) = 0))

\* The reporting goroutine has returned after inserting both roles, one of
\* them more than once, and Empty() is about to return false to a reader.
C20_Witness ==
    \E t \in Readers :
        /\ Returning(t, "Empty")
        /\ ~loc[t].b
        /\ LenOf(m) = 2
        /\ m["manager"].PID > 1
        /\ pc[Sched] = "done"

====
